---- MODULE Spec2Model ----
(***************************************************************************)
(* Model of lib/wasmstandalone/src/execution.rs: compile_module (code      *)
(* generation driver), relocate (relocation resolver) and execute          *)
(* (execution launcher), with the relocation sink's callbacks.             *)
(*                                                                         *)
(* The backend (verify_function, Context::compile, emit_to_memory), the    *)
(* allocator, the runtime's func_indices table and the OS's protect are    *)
(* the environment: their answers are drawn from small sets.               *)
(*                                                                         *)
(* Addresses are 64-bit (isize).  Integers here are 32-bit, so an address  *)
(* is kept as [hi, lo] standing for hi * 65536 + lo with 0 <= lo < 65536;  *)
(* the i32 displacement keeps its 32-bit width exactly.                    *)
(***************************************************************************)
EXTENDS Integers, Sequences, FiniteSets, TLC

\* ---------------------------------------------------------------- bounds
\* Most local (compiled) functions of a module.
MaxFuncs == 2
\* Most relocation callbacks the backend makes in one compile_module run.
MaxRelocs == 2

\* ------------------------------------------------------- environment sets
\* Function references a call instruction can carry (ir::FuncRef).
FuncRefs == {0, 1}
\* Blocks of a function (ir::Ebb); ebb 0 is the entry block.
Ebbs == {0, 1}
\* Jump tables of a function (ir::JumpTable).
JumpTables == {0}
\* Numbers of imported functions of a module.
ImportCounts == {0, 1}
\* Values of binemit::Reloc (the relocation kind, a u16 newtype) the backend
\* reports for a block, a function and a jump table reference.
EbbRelocKinds == {0}
FuncRelocKinds == {0, 1}
JtRelocKinds == {0}
\* Code lengths Context::compile reports on success (0: nothing generated).
CodeSizes == {0, 16}
\* Byte offsets the backend reports for a relocation: the 4-byte field the
\* resolver writes, [off + 4, off + 8), lies inside the emitted code.
SiteOffsets(size) == {o \in {0, 8} : o + 8 <= size}
\* The block-offset table Context::compile leaves in context.func.offsets for
\* function i: the entry block at 0, the second block at 4 or at 12.
BlockOffsets(i) == IF i % 2 = 0 THEN <<0, 4>> ELSE <<0, 12>>
\* Base addresses of the code buffers, in address order.  The first buffer
\* straddles a 64 KiB boundary; the last is more than 2^31 bytes above the
\* others, so a displacement between them does not fit an i32.
AddrPool ==
    <<[hi |-> 1, lo |-> 65528], [hi |-> 2, lo |-> 64], [hi |-> 32771, lo |-> 0]>>
\* What the OS answers to region::protect.
ProtectAnswers == {"ok", "denied"}

VARIABLES
    debug_assertions,   \* build profile: TRUE when debug_assert! is compiled in
    trans_result,       \* [nfuncs, function_imports_count, start_index]
    func_indices,       \* runtime.func_indices: FuncRef -> module function index
    pc,                 \* position in compile_module / relocate / execute
    panic,              \* the panic message ("" while no panic)
    function_index,     \* loop counter of the generation loop
    code_buf,           \* buffer being emitted: [addr, bytes] (<<>> bytes: none)
    relocsink,          \* sink being filled: [ebbs, funcs, jts], maps keyed by Reloc
    offsets,            \* context.func.offsets of the function being emitted
    emit_pos,           \* lowest offset the backend may still report
    functions_metatada, \* Seq of [relocs, offsets]
    functions_code,     \* Seq of [addr, bytes]
    result,             \* what compile_module returned
    protection,         \* per buffer: "RW" or "RWX"
    protect_calls,      \* number of region::protect calls made
    invoked,            \* per buffer: number of calls into it
    exec_result,        \* what execute returned
    reported,           \* history: every callback the backend made
    patched,            \* history: every site relocate wrote
    failed_at           \* history: what stopped generation ("" if nothing)

vars == <<debug_assertions, trans_result, func_indices, pc, panic, function_index,
          code_buf, relocsink, offsets, emit_pos, functions_metatada, functions_code,
          result, protection, protect_calls, invoked, exec_result,
          reported, patched, failed_at>>

\* ------------------------------------------------------------- arithmetic
\* ptr.offset(n): the address n bytes above a.
AddrAdd(a, n) ==
    LET s == a.lo + n
    IN [hi |-> a.hi + (s \div 65536), lo |-> s % 65536]

\* (target - reloc_address) as i32: the low 32 bits of the difference of two
\* isize values, read as a signed integer.
RelocDelta(target, reloc_address) ==
    LET dl == target.lo - reloc_address.lo
        lo16 == dl % 65536
        borrow == (dl - lo16) \div 65536
        hi16 == (target.hi - reloc_address.hi + borrow) % 65536
        shi == IF hi16 >= 32768 THEN hi16 - 65536 ELSE hi16
    IN shi * 65536 + lo16

\* The four little-endian bytes of an i32.
ToLeBytes(v) ==
    LET lo16 == v % 65536
        hi16 == ((v - lo16) \div 65536) % 65536
    IN <<lo16 % 256, lo16 \div 256, hi16 % 256, hi16 \div 256>>

\* write_unaligned(base + pos as *mut i32, v): bytes pos .. pos + 3 of the
\* buffer (0-based) become v's bytes.
WriteUnaligned(bytes, pos, v) ==
    [i \in 1..Len(bytes) |->
        IF i - 1 >= pos /\ i - 1 < pos + 4 THEN ToLeBytes(v)[i - pos] ELSE bytes[i]]

\* Vec::with_capacity(code_size) then resize(code_size, 0).
ZeroBuf(size) == [i \in 1..size |-> 0]

\* StandaloneRelocSink::new(): three empty maps.
EmptyMap == [k \in {} |-> 0]
NewRelocSink == [ebbs |-> EmptyMap, funcs |-> EmptyMap, jts |-> EmptyMap]

\* HashMap::insert(key, value): one entry per key, the last insert wins.
HashMapInsert(map, key, value) ==
    [k \in DOMAIN map \cup {key} |-> IF k = key THEN value ELSE map[k]]

\* ------------------------------------------------------------ diagnostics
\* pretty_verifier_error: the verifier's message, the failing instruction
\* when the location is one, then the dump of the function.
pretty_verifier_error(func, err) ==
    <<"verifier: " \o err.msg>>
    \o (IF err.location = "Inst" THEN <<"inst", "display_inst">> ELSE <<"newline">>)
    \o <<"display of function " \o func>>

\* pretty_error: a verifier error is formatted as above, any other as itself.
pretty_error(func, err) ==
    IF err.kind = "Verifier" THEN pretty_verifier_error(func, err)
    ELSE <<"cton: " \o err.msg>>

FuncName(i) == IF i = 0 THEN "f0" ELSE IF i = 1 THEN "f1" ELSE "fN"

\* Errors Context::compile can return.
CtonErrors ==
    {[kind |-> "Verifier", msg |-> "bad type", location |-> "Inst"],
     [kind |-> "Verifier", msg |-> "bad type", location |-> "Ebb"],
     [kind |-> "Other", msg |-> "code too large", location |-> "None"]}

\* ------------------------------------------------------------------- Init
\* The translated modules: the number of local functions, the number of
\* imports, and the start index: none ({}) or one function of the module.
StartIndices(n, k) == {{}} \cup {{i} : i \in 0..(n + k - 1)}
Modules ==
    UNION {{[nfuncs |-> n, function_imports_count |-> k, start_index |-> s] :
                s \in StartIndices(n, k)} : n \in 1..MaxFuncs, k \in ImportCounts}

\* runtime.func_indices of a module whose calls all go to local functions:
\* reference r is local function r (modulo their number).
LocalTargets(m) == [r \in FuncRefs |-> m.function_imports_count + (r % m.nfuncs)]

\* Every table runtime.func_indices can be for module m, up to the names of
\* the references (a call site may carry any of them).
AllTargets(m) ==
    {t \in [FuncRefs -> 0..(m.function_imports_count + m.nfuncs - 1)] :
        \A r1, r2 \in FuncRefs : r1 <= r2 => t[r1] <= t[r2]}

\* The inputs: every module with every start index in either build, its calls
\* going to local functions; and every func_indices table for the modules
\* whose start function is the first local one.
Init ==
    /\ trans_result \in Modules
    /\ \/ /\ debug_assertions \in BOOLEAN
          /\ func_indices = LocalTargets(trans_result)
       \/ /\ debug_assertions = FALSE
          /\ trans_result.start_index = {trans_result.function_imports_count}
          /\ func_indices \in AllTargets(trans_result)
    /\ pc = "start"
    /\ panic = ""
    /\ function_index = 0
    /\ code_buf = [addr |-> [hi |-> 0, lo |-> 0], bytes |-> <<>>]
    /\ relocsink = NewRelocSink
    /\ offsets = <<>>
    /\ emit_pos = 0
    /\ functions_metatada = <<>>
    /\ functions_code = <<>>
    /\ result = [kind |-> "Pending"]
    /\ protection = <<>>
    /\ protect_calls = 0
    /\ invoked = <<>>
    /\ exec_result = [kind |-> "Pending"]
    /\ reported = {}
    /\ patched = {}
    /\ failed_at = ""

\* --------------------------------------------------------- compile_module
ImportsCount == trans_result.function_imports_count

\* The condition of the debug_assert! at the top of compile_module.
StartIsLocal ==
    trans_result.start_index = {} \/ \A s \in trans_result.start_index : s >= ImportsCount

\* debug_assert! fails: the start function is an imported one (debug builds).
DebugAssertFails ==
    /\ pc = "start"
    /\ debug_assertions
    /\ ~StartIsLocal
    /\ pc' = "panicked"
    /\ panic' = "imported start functions not supported yet"
    /\ failed_at' = "debug_assert"
    /\ UNCHANGED <<debug_assertions, trans_result, func_indices, function_index, code_buf,
                   relocsink, offsets, emit_pos, functions_metatada, functions_code,
                   result, protection, protect_calls, invoked,
                   exec_result, reported, patched>>

\* debug_assert! holds, or is compiled out (release builds).
DebugAssertPasses ==
    /\ pc = "start"
    /\ ~debug_assertions \/ StartIsLocal
    /\ pc' = "loop"
    /\ UNCHANGED <<debug_assertions, trans_result, func_indices, panic, function_index,
                   code_buf, relocsink, offsets, emit_pos, functions_metatada,
                   functions_code, result, protection, protect_calls,
                   invoked, exec_result, reported, patched, failed_at>>

\* verify_function(function, isa).unwrap(): an Err panics.
VerifyFunction ==
    /\ pc = "loop"
    /\ function_index < trans_result.nfuncs
    /\ \E verdict \in {"ok", "rejected"} :
          IF verdict = "ok"
          THEN /\ pc' = "compile"
               /\ UNCHANGED <<panic, failed_at>>
          ELSE /\ pc' = "panicked"
               /\ panic' = "called Result::unwrap() on an Err value"
               /\ failed_at' = "verify"
    /\ UNCHANGED <<debug_assertions, trans_result, func_indices, function_index, code_buf,
                   relocsink, offsets, emit_pos, functions_metatada, functions_code,
                   result, protection, protect_calls, invoked,
                   exec_result, reported, patched>>

\* context.compile(isa) returns Err(e): map_err(pretty_error) and `?`.
CompileFails ==
    /\ pc = "compile"
    /\ \E e \in CtonErrors :
          result' = [kind |-> "Err", msg |-> pretty_error(FuncName(function_index), e)]
    /\ pc' = "returned"
    /\ failed_at' = "compile"
    /\ UNCHANGED <<debug_assertions, trans_result, func_indices, panic, function_index,
                   code_buf, relocsink, offsets, emit_pos, functions_metatada,
                   functions_code, protection, protect_calls, invoked,
                   exec_result, reported, patched>>

\* Where the allocator can place the next buffer (Vec::with_capacity): it
\* hands out the pool in address order, upwards from the lowest address or
\* downwards from the highest.
FreeAddrs ==
    LET n == Len(functions_code)
    IN IF n >= Len(AddrPool) THEN {}
       ELSE IF n = 0 THEN {AddrPool[1], AddrPool[Len(AddrPool)]}
       ELSE IF functions_code[1].addr = AddrPool[1] THEN {AddrPool[n + 1]}
       ELSE {AddrPool[Len(AddrPool) - n]}

\* Mutant of EmptyCodeError: the empty code is reported as a backend error.
EmptyCodeErrorAsBackend ==
    [kind |-> "Err",
     msg |-> pretty_error(FuncName(function_index),
                          [kind |-> "Other", msg |-> "code too large", location |-> "None"])]

\* return Err(String::from("no code generated by Cretonne"))
EmptyCodeError == [kind |-> "Err", msg |-> <<"no code generated by Cretonne">>]

\* context.compile(isa) returns Ok(code_size): the zero check, then the
\* buffer is allocated and a new sink made, ready for emit_to_memory.
CompileSucceeds ==
    /\ pc = "compile"
    /\ \E code_size \in CodeSizes :
          IF code_size = 0
          THEN /\ result' = EmptyCodeError
               /\ pc' = "returned"
               /\ failed_at' = "empty"
               /\ UNCHANGED <<code_buf, relocsink, offsets, emit_pos>>
          ELSE /\ \E a \in FreeAddrs : code_buf' = [addr |-> a, bytes |-> ZeroBuf(code_size)]
               /\ relocsink' = NewRelocSink
               /\ offsets' = BlockOffsets(function_index)
               /\ emit_pos' = 0
               /\ pc' = "emit"
               /\ UNCHANGED <<result, failed_at>>
    /\ UNCHANGED <<debug_assertions, trans_result, func_indices, panic, function_index,
                   functions_metatada, functions_code, protection,
                   protect_calls, invoked, exec_result, reported, patched>>

\* ------------------------------------------------ StandaloneRelocSink
\* The offsets emit_to_memory may report next: it walks the code upwards.
NextSites ==
    {o \in SiteOffsets(Len(code_buf.bytes)) : o >= emit_pos}

CanReport == pc = "emit" /\ Cardinality(reported) < MaxRelocs

Report(kind, offset) ==
    /\ reported' = reported \cup
          {[func |-> function_index, kind |-> kind, offset |-> offset]}
    /\ emit_pos' = offset + 8
    /\ UNCHANGED <<debug_assertions, trans_result, func_indices, pc, panic, function_index,
                   code_buf, offsets, functions_metatada, functions_code, result, protection, protect_calls, invoked, exec_result,
                   patched, failed_at>>

\* self.ebbs.insert(reloc.0, (ebb, offset))
reloc_ebb ==
    /\ CanReport
    /\ \E offset \in NextSites, reloc \in EbbRelocKinds, ebb \in Ebbs :
          /\ relocsink' = [relocsink EXCEPT !.ebbs =
                HashMapInsert(@, reloc, [target |-> ebb, offset |-> offset])]
          /\ Report("ebb", offset)

\* self.funcs.insert(reloc.0, (func, offset))
reloc_func ==
    /\ CanReport
    /\ \E offset \in NextSites, reloc \in FuncRelocKinds, func \in FuncRefs :
          /\ relocsink' = [relocsink EXCEPT !.funcs =
                HashMapInsert(@, reloc, [target |-> func, offset |-> offset])]
          /\ Report("func", offset)

\* self.jts.insert(reloc.0, (jt, offset))
reloc_jt ==
    /\ CanReport
    /\ \E offset \in NextSites, reloc \in JtRelocKinds, jt \in JumpTables :
          /\ relocsink' = [relocsink EXCEPT !.jts =
                HashMapInsert(@, reloc, [target |-> jt, offset |-> offset])]
          /\ Report("jt", offset)

\* --------------------------------------------------------------- relocate
\* Mutant of TargetFuncIndex: the import count is not subtracted.
TargetFuncIndexAbsolute(func_ref) == func_indices[func_ref]

\* runtime.func_indices[func_ref] - function_imports_count
TargetFuncIndex(func_ref) == func_indices[func_ref] - ImportsCount

\* functions_code[func_index].as_mut_ptr().offset(offset as isize + 4)
RelocAddress(base, offset) == AddrAdd(base, offset + 4)

\* Mutant of TargetEbbAddress: the block is looked up in the first function's
\* table instead of the function's own.
TargetEbbAddressFirstTable(base, il_func_offsets, ebb) ==
    AddrAdd(base, functions_metatada[1].offsets[ebb + 1])

\* functions_code[func_index].as_ptr().offset(il_func.offsets[ebb] as isize)
TargetEbbAddress(base, il_func_offsets, ebb) == AddrAdd(base, il_func_offsets[ebb + 1])

\* write_unaligned(reloc_address as *mut i32, delta), reloc_address being
\* RelocAddress(base of buffer fi, offset): the bytes of buffer fi at
\* reloc_address - base onwards.
Patch(code, fi, offset, delta) ==
    [code EXCEPT ![fi + 1].bytes = WriteUnaligned(@, offset + 4, delta)]

\* The body of `for &(func_ref, offset) in relocs.funcs.values()` for one
\* entry.  st is [code, patched, panic]: the buffers, the sites written so
\* far, and the panic message once a panic has stopped relocate.
RelocateFunc(st, fi, entry) ==
    LET target_func_index == TargetFuncIndex(entry.target)
    IN IF target_func_index < 0
       THEN [st EXCEPT !.panic = "attempt to subtract with overflow"]
       ELSE IF target_func_index >= Len(st.code)
       THEN [st EXCEPT !.panic = "index out of bounds"]
       ELSE LET target_func_address == st.code[target_func_index + 1].addr
                reloc_address == RelocAddress(st.code[fi + 1].addr, entry.offset)
                reloc_delta_i32 == RelocDelta(target_func_address, reloc_address)
            IN [st EXCEPT
                  !.code = Patch(@, fi, entry.offset, reloc_delta_i32),
                  !.patched = @ \cup {[func |-> fi, kind |-> "func", offset |-> entry.offset]}]

\* The body of `for &(ebb, offset) in relocs.ebbs.values()` for one entry.
RelocateEbb(st, fi, il_func_offsets, entry) ==
    LET reloc_address == RelocAddress(st.code[fi + 1].addr, entry.offset)
        target_ebb_address ==
            TargetEbbAddress(st.code[fi + 1].addr, il_func_offsets, entry.target)
        reloc_delta_i32 == RelocDelta(target_ebb_address, reloc_address)
    IN [st EXCEPT
          !.code = Patch(@, fi, entry.offset, reloc_delta_i32),
          !.patched = @ \cup {[func |-> fi, kind |-> "ebb", offset |-> entry.offset]}]

\* HashMap::values() visits the entries in an unspecified order: the states
\* the loop over relocs.funcs can end in, one per order (a panic ends it).
RECURSIVE ForFuncs(_, _, _, _)
ForFuncs(st, fi, map, keys) ==
    IF st.panic # "" \/ keys = {} THEN {st}
    ELSE UNION {ForFuncs(RelocateFunc(st, fi, map[k]), fi, map, keys \ {k}) : k \in keys}

\* The same for the loop over relocs.ebbs.
RECURSIVE ForEbbs(_, _, _, _, _)
ForEbbs(st, fi, il_func_offsets, map, keys) ==
    IF st.panic # "" \/ keys = {} THEN {st}
    ELSE UNION {ForEbbs(RelocateEbb(st, fi, il_func_offsets, map[k]), fi, il_func_offsets,
                        map, keys \ {k}) : k \in keys}

\* relocate's outer loop from function fi on: the states it can end in.
RECURSIVE relocate(_, _, _)
relocate(st, meta, fi) ==
    IF st.panic # "" \/ fi >= Len(meta) THEN {st}
    ELSE LET relocs == meta[fi + 1].relocs
             afterFuncs == ForFuncs(st, fi, relocs.funcs, DOMAIN relocs.funcs)
             afterEbbs == UNION {ForEbbs(s, fi, meta[fi + 1].offsets, relocs.ebbs,
                                         DOMAIN relocs.ebbs) : s \in afterFuncs}
         IN UNION {relocate(s, meta, fi + 1) : s \in afterEbbs}

\* ------------------------------------- compile_module, after the emission
\* Mutant of PushFunction: the function is relocated as soon as it is
\* emitted, before the functions after it exist.
PushFunctionRelocating ==
    /\ pc = "emit"
    /\ functions_metatada' =
          Append(functions_metatada, [relocs |-> relocsink, offsets |-> offsets])
    /\ \E st \in relocate([code |-> Append(functions_code, code_buf), patched |-> patched,
                           panic |-> ""], functions_metatada', function_index) :
          /\ functions_code' = st.code
          /\ patched' = st.patched
          /\ IF st.panic # ""
             THEN /\ pc' = "panicked"
                  /\ panic' = st.panic
                  /\ failed_at' = "relocate"
             ELSE /\ pc' = "loop"
                  /\ UNCHANGED <<panic, failed_at>>
    /\ protection' = Append(protection, "RW")
    /\ invoked' = Append(invoked, 0)
    /\ function_index' = function_index + 1
    /\ code_buf' = [addr |-> [hi |-> 0, lo |-> 0], bytes |-> <<>>]
    /\ relocsink' = NewRelocSink
    /\ offsets' = <<>>
    /\ emit_pos' = 0
    /\ UNCHANGED <<debug_assertions, trans_result, func_indices, result, protect_calls,
                   exec_result, reported>>

\* emit_to_memory returned: push the metadata and the buffer, next function.
PushFunction ==
    /\ pc = "emit"
    /\ functions_metatada' =
          Append(functions_metatada, [relocs |-> relocsink, offsets |-> offsets])
    /\ functions_code' = Append(functions_code, code_buf)
    /\ protection' = Append(protection, "RW")
    /\ invoked' = Append(invoked, 0)
    /\ function_index' = function_index + 1
    /\ code_buf' = [addr |-> [hi |-> 0, lo |-> 0], bytes |-> <<>>]
    /\ relocsink' = NewRelocSink
    /\ offsets' = <<>>
    /\ emit_pos' = 0
    /\ pc' = "loop"
    /\ UNCHANGED <<debug_assertions, trans_result, func_indices, panic, result, protect_calls, exec_result, reported, patched, failed_at>>

\* Mutant of MatchStartIndex: a missing start index defaults to function 0.
MatchStartIndexOrFirst ==
    IF trans_result.start_index = {}
    THEN [kind |-> "Ok", start_index |-> 0]
    ELSE [kind |-> "Ok", start_index |-> CHOOSE index \in trans_result.start_index : TRUE]

\* `match trans_result.start_index` at the end of compile_module.
MatchStartIndex ==
    IF trans_result.start_index = {}
    THEN [kind |-> "Err", msg |-> <<"No start function defined, aborting execution">>]
    ELSE [kind |-> "Ok", start_index |-> CHOOSE index \in trans_result.start_index : TRUE]

\* The generation loop is over: relocate(...) runs, then compile_module
\* returns what the match on the start index gives.
RelocateAndReturn ==
    /\ pc = "loop"
    /\ function_index = trans_result.nfuncs
    /\ \E st \in relocate([code |-> functions_code, patched |-> patched, panic |-> ""],
                          functions_metatada, 0) :
          /\ functions_code' = st.code
          /\ patched' = st.patched
          /\ IF st.panic # ""
             THEN /\ pc' = "panicked"
                  /\ panic' = st.panic
                  /\ failed_at' = "relocate"
                  /\ UNCHANGED result
             ELSE /\ pc' = "returned"
                  /\ result' = MatchStartIndex
                  /\ UNCHANGED <<panic, failed_at>>
    /\ UNCHANGED <<debug_assertions, trans_result, func_indices, function_index, code_buf,
                   relocsink, offsets, emit_pos, functions_metatada, protection,
                   protect_calls, invoked, exec_result, reported>>

\* ---------------------------------------------------------------- execute
\* The buffer execute works on: &exec.functions_code[exec.start_index].
ExecBufIndex(exec) == exec.start_index

\* Mutant of Protect: the answer of protect is ignored and the buffer called
\* whatever the OS said.
ProtectUnchecked ==
    /\ pc = "returned"
    /\ result.kind = "Ok"
    /\ IF ExecBufIndex(result) >= Len(functions_code)
       THEN /\ pc' = "panicked"
            /\ panic' = "index out of bounds"
            /\ UNCHANGED <<protection, protect_calls>>
       ELSE /\ protect_calls' = protect_calls + 1
            /\ UNCHANGED panic
            /\ pc' = "call"
            /\ \E answer \in ProtectAnswers :
                  IF answer = "ok"
                  THEN protection' = [protection EXCEPT ![ExecBufIndex(result) + 1] = "RWX"]
                  ELSE UNCHANGED protection
    /\ UNCHANGED <<debug_assertions, trans_result, func_indices, function_index, code_buf,
                   relocsink, offsets, emit_pos, functions_metatada, functions_code,
                   result, invoked, exec_result, reported, patched, failed_at>>

\* execute(&exec), entered with what compile_module returned, up to the
\* answer of protect(code_buf.as_ptr(), code_buf.len(), ReadWriteExecute).
\* The index expression panics past the end of the vector.
Protect ==
    /\ pc = "returned"
    /\ result.kind = "Ok"
    /\ IF ExecBufIndex(result) >= Len(functions_code)
       THEN /\ pc' = "panicked"
            /\ panic' = "index out of bounds"
            /\ UNCHANGED <<protection, protect_calls, exec_result>>
       ELSE /\ protect_calls' = protect_calls + 1
            /\ UNCHANGED panic
            /\ \E answer \in ProtectAnswers :
                  IF answer = "ok"
                  THEN /\ protection' =
                            [protection EXCEPT ![ExecBufIndex(result) + 1] = "RWX"]
                       /\ pc' = "call"
                       /\ UNCHANGED exec_result
                  ELSE /\ exec_result' = [kind |-> "Err",
                            msg |-> <<"failed to give executable permission to code: ",
                                      answer>>]
                       /\ pc' = "executed"
                       /\ UNCHANGED protection
    /\ UNCHANGED <<debug_assertions, trans_result, func_indices, function_index, code_buf,
                   relocsink, offsets, emit_pos, functions_metatada, functions_code,
                   result, invoked, reported, patched, failed_at>>

\* transmute the buffer's address to fn() and call it; then Ok(()).
Invoke ==
    /\ pc = "call"
    /\ invoked' = [invoked EXCEPT ![ExecBufIndex(result) + 1] = @ + 1]
    /\ exec_result' = [kind |-> "Ok"]
    /\ pc' = "executed"
    /\ UNCHANGED <<debug_assertions, trans_result, func_indices, panic, function_index,
                   code_buf, relocsink, offsets, emit_pos, functions_metatada,
                   functions_code, result, protection, protect_calls, reported, patched,
                   failed_at>>

\* ------------------------------------------------------------------- Next
Next ==
    \/ DebugAssertFails
    \/ DebugAssertPasses
    \/ VerifyFunction
    \/ CompileFails
    \/ CompileSucceeds
    \/ reloc_ebb
    \/ reloc_func
    \/ reloc_jt
    \/ PushFunction
    \/ RelocateAndReturn
    \/ Protect
    \/ Invoke

Spec == Init /\ [][Next]_vars

\* ------------------------------------------------------------- the claims
\* The i32 read back from bytes pos .. pos + 3 (0-based) of a buffer,
\* little-endian, as a signed integer.
ReadI32(bytes, pos) ==
    LET lo16 == bytes[pos + 1] + 256 * bytes[pos + 2]
        hi16 == bytes[pos + 3] + 256 * bytes[pos + 4]
    IN (IF hi16 >= 32768 THEN hi16 - 65536 ELSE hi16) * 65536 + lo16

\* The signed 32-bit integer congruent modulo 2^32 to t - (f + n), for
\* addresses t and f and a byte count n.
AsI32Difference(t, f, n) ==
    LET lo == t.lo - f.lo - n
        hi == (t.hi - f.hi + ((lo - (lo % 65536)) \div 65536)) % 65536
    IN (IF hi >= 32768 THEN hi - 65536 ELSE hi) * 65536 + (lo % 65536)

\* Two addresses less than 2^30 bytes apart: their difference, and the
\* difference of sites a buffer's length away, is an i32 as it stands.
Near(t, f) == t.hi - f.hi < 16384 /\ f.hi - t.hi < 16384

\* compile_module's relocation step has completed (and compile_module returned).
RelocationDone == result.kind # "Pending" /\ failed_at = ""

\* The call relocations function fi (1-based) kept: [target, offset] records.
CallRelocs(fi) ==
    {functions_metatada[fi].relocs.funcs[k] : k \in DOMAIN functions_metatada[fi].relocs.funcs}

\* The block relocations function fi (1-based) kept.
EbbRelocs(fi) ==
    {functions_metatada[fi].relocs.ebbs[k] : k \in DOMAIN functions_metatada[fi].relocs.ebbs}

\* C1: after the relocation step, for every function F and every call
\* relocation recorded for F at offset off with target reference r, the four
\* bytes of F's buffer at [off + 4, off + 8) hold, as a signed 32-bit integer,
\* address(T) - (address(F) + off + 4), T being the buffer at local index
\* func_indices[r] - function_imports_count: the difference itself when the
\* buffers are near each other, its low 32 bits in any case; and -(off + 4)
\* when T = F.
C1_CallDisplacement ==
    RelocationDone =>
        \A fi \in 1..Len(functions_metatada) : \A e \in CallRelocs(fi) :
            LET F == functions_code[fi]
                ti == func_indices[e.target] - trans_result.function_imports_count + 1
                T == functions_code[ti]
                stored == ReadI32(F.bytes, e.offset + 4)
            IN /\ ti \in 1..Len(functions_code)
               /\ stored = AsI32Difference(T.addr, F.addr, e.offset + 4)
               /\ Near(T.addr, F.addr) =>
                     stored = (T.addr.hi - F.addr.hi) * 65536 + T.addr.lo
                              - (F.addr.lo + e.offset + 4)
               /\ ti = fi => stored = -(e.offset + 4)

\* C1's case: in a module with an import, a call from one function to
\* another, whose buffer is more than 2^31 bytes away, and a self-recursive
\* call have been patched.
C1_Witness ==
    /\ RelocationDone
    /\ trans_result.function_imports_count > 0
    /\ \E fi \in 1..Len(functions_metatada) : \E e \in CallRelocs(fi) :
          LET ti == func_indices[e.target] - trans_result.function_imports_count + 1
          IN /\ ti # fi
             /\ ~Near(functions_code[ti].addr, functions_code[fi].addr)
             /\ [func |-> fi - 1, kind |-> "func", offset |-> e.offset] \in patched
    /\ \E fi \in 1..Len(functions_metatada) : \E e \in CallRelocs(fi) :
          /\ func_indices[e.target] - trans_result.function_imports_count + 1 = fi
          /\ [func |-> fi - 1, kind |-> "func", offset |-> e.offset] \in patched

\* C2: every call relocation and every block relocation the backend reported
\* to the sink while a function was emitted has been patched once
\* compile_module has succeeded; no reported call or block site is lost.
C2_EveryReportedSitePatched ==
    result.kind = "Ok" =>
        \A r \in reported :
            r.kind \in {"func", "ebb"} =>
                [func |-> r.func, kind |-> r.kind, offset |-> r.offset] \in patched

\* The missing-entry error.
MissingEntryError ==
    [kind |-> "Err", msg |-> <<"No start function defined, aborting execution">>]

\* No buffer has been made executable or called, and protect was not called.
NothingExecutable ==
    /\ protect_calls = 0
    /\ \A i \in 1..Len(protection) : protection[i] = "RW"
    /\ \A i \in 1..Len(invoked) : invoked[i] = 0

\* C3 as stated: for a module whose start index is absent, compile_module,
\* when it returns, returns the missing-entry error; no ExecutableCode is
\* produced and no buffer is made executable or invoked.
C3_MissingEntryAlways ==
    trans_result.start_index = {} =>
        /\ pc = "returned" => result = MissingEntryError
        /\ result.kind # "Ok"
        /\ NothingExecutable

\* C3, amended: for a module whose start index is absent, no ExecutableCode
\* is ever produced and no buffer is ever made executable or invoked; and
\* when generation and relocation have completed for every function,
\* compile_module returns the missing-entry error (an earlier failure of
\* generation is what it returns otherwise).
C3_MissingEntryAfterGeneration ==
    trans_result.start_index = {} =>
        /\ result.kind # "Ok"
        /\ NothingExecutable
        /\ pc \notin {"call", "executed"}
        /\ (pc = "returned" /\ failed_at = "") => result = MissingEntryError
        /\ result = MissingEntryError => failed_at = ""

\* C3's case: a module without a start index whose functions were all
\* generated and relocated, and compile_module has returned.
C3_Witness ==
    /\ trans_result.start_index = {}
    /\ pc = "returned"
    /\ failed_at = ""
    /\ Len(functions_code) = trans_result.nfuncs
    /\ patched # {}

\* C4: a module whose start index is an imported function makes
\* compile_module fail before the generation loop verifies, compiles or
\* emits anything, in every build.
C4_ImportedStartRejected ==
    ~StartIsLocal => pc \in {"start", "panicked"} /\ function_index = 0

\* C5: when the verifier rejects a function, compile_module returns an Err
\* carrying the formatted diagnostic, with no partial result and no patch.
C5_VerifierFailureReturned ==
    failed_at = "verify" =>
        /\ pc = "returned"
        /\ result.kind = "Err"
        /\ patched = {}

\* C6: when the backend's compile step succeeds with a code length of zero,
\* compile_module returns the empty-code error, not a backend or verifier
\* diagnostic; no code is emitted for that function, no later function is
\* processed, nothing is patched and no ExecutableCode is returned.
C6_EmptyCodeError ==
    failed_at = "empty" =>
        /\ pc = "returned"
        /\ result = [kind |-> "Err", msg |-> <<"no code generated by Cretonne">>]
        /\ \A e \in CtonErrors : result.msg # pretty_error(FuncName(function_index), e)
        /\ code_buf.bytes = <<>>
        /\ Len(functions_code) = function_index
        /\ function_index < trans_result.nfuncs
        /\ \A r \in reported : r.func < function_index
        /\ patched = {}
        /\ \A i \in 1..Len(functions_code) : \A j \in 1..Len(functions_code[i].bytes) :
              functions_code[i].bytes[j] = 0
        /\ NothingExecutable

\* C6's case: the second function of a module compiled to no code, after the
\* first was emitted with a relocation.
C6_Witness ==
    /\ failed_at = "empty"
    /\ function_index = 1
    /\ reported # {}

\* C7: after resolution, for every function F and every block relocation
\* recorded for F at offset off with target block b, the four bytes of F's
\* buffer at [off + 4, off + 8) hold, as a signed 32-bit integer,
\* offsets_F[b] - (off + 4), offsets_F being F's own block-offset table.
C7_BlockDisplacement ==
    RelocationDone =>
        \A fi \in 1..Len(functions_metatada) : \A e \in EbbRelocs(fi) :
            ReadI32(functions_code[fi].bytes, e.offset + 4)
                = BlockOffsets(fi - 1)[e.target + 1] - (e.offset + 4)

\* C7's case: the second function of a module, whose block-offset table
\* differs from the first's, and whose buffer is not the lowest one, has had
\* a branch to its second block patched.
C7_Witness ==
    /\ RelocationDone
    /\ Len(functions_metatada) >= 2
    /\ functions_metatada[1].offsets # functions_metatada[2].offsets
    /\ \E e \in EbbRelocs(2) :
          /\ e.target = 1
          /\ [func |-> 1, kind |-> "ebb", offset |-> e.offset] \in patched

\* The number of calls made into the buffers.
RECURSIVE Sum(_)
Sum(seq) == IF seq = <<>> THEN 0 ELSE Head(seq) + Sum(Tail(seq))

\* C8: execute calls into the start function's buffer only after its
\* transition to read+write+execute has succeeded.  If the OS denies the
\* transition, execute returns an error carrying the OS's reason, has made
\* exactly one attempt and has called nothing; if it succeeds, the buffer is
\* called exactly once and execute returns Ok.
C8_InvokeOnlyAfterProtect ==
    /\ protect_calls <= 1
    /\ Sum(invoked) <= 1
    /\ \A i \in 1..Len(invoked) : invoked[i] > 0 => protection[i] = "RWX"
    /\ pc = "call" => protection[ExecBufIndex(result) + 1] = "RWX" /\ protect_calls = 1
    /\ exec_result.kind = "Err" =>
          /\ exec_result.msg =
                <<"failed to give executable permission to code: ", "denied">>
          /\ protect_calls = 1
          /\ Sum(invoked) = 0
          /\ \A i \in 1..Len(protection) : protection[i] = "RW"
    /\ exec_result.kind = "Ok" =>
          /\ protect_calls = 1
          /\ invoked[ExecBufIndex(result) + 1] = 1
          /\ Sum(invoked) = 1
          /\ protection[ExecBufIndex(result) + 1] = "RWX"
    /\ pc = "executed" => exec_result.kind # "Pending"

\* C8's case: execute ran: the OS granted the transition and the buffer was
\* called.
C8_Witness ==
    /\ pc = "executed"
    /\ exec_result.kind = "Ok"
    /\ Sum(invoked) = 1

\* C9: no relocation patch is written to any buffer until every function of
\* the module has been verified, compiled and emitted into its final buffer;
\* and if generation fails for any function, no patch is ever written.
C9_GenerationBarrier ==
    /\ patched # {} =>
          /\ function_index = trans_result.nfuncs
          /\ Len(functions_code) = trans_result.nfuncs
          /\ Len(functions_metatada) = trans_result.nfuncs
          /\ failed_at \in {"", "relocate"}
    /\ (pc \in {"start", "loop", "compile", "emit"}
        \/ failed_at \in {"debug_assert", "verify", "compile", "empty"}) =>
          /\ patched = {}
          /\ \A i \in 1..Len(functions_code) : \A j \in 1..Len(functions_code[i].bytes) :
                functions_code[i].bytes[j] = 0

\* C9's case: a module of two functions, the first of which has a
\* relocation, has been patched.
C9_Witness ==
    /\ trans_result.nfuncs >= 2
    /\ \E p \in patched : p.func = 0

\* C10: for start index s >= k (k the import count), execute makes
\* executable and calls exactly the buffer of the start function, the one at
\* local index s - k, and never indexes past the end of the buffers.
C10_StartBufferSelected ==
    (StartIsLocal /\ trans_result.start_index # {}) =>
        /\ \A i \in 1..Len(protection) :
              (protection[i] = "RWX" \/ invoked[i] > 0) =>
                  \A s \in trans_result.start_index :
                      i - 1 = s - trans_result.function_imports_count
        /\ ~(result.kind = "Ok" /\ pc = "panicked")

====
